---- MODULE Spec2Model ----
(***************************************************************************)
(* A model of the mpv player session controller (src/mpv_controller.py)    *)
(* and of the HTTP handlers that drive it (src/app.py).                    *)
(*                                                                         *)
(* The controller object holds one field, self.proc.  Flask serves every   *)
(* request on its own thread (app.run(..., threaded=True)) and all the     *)
(* threads share the one MPVController instance, which takes no lock: each *)
(* caller therefore has a program counter, and the steps of different      *)
(* callers interleave.  The external world is the socket file at           *)
(* MPV_SOCKET and the mpv processes the controller launched.               *)
(***************************************************************************)
EXTENDS Integers, Sequences, FiniteSets, TLC

\* ------------------------------------------------------------------ bounds
\* Number of mpv processes that may be launched in one behaviour.
MaxProcs == 2
\* Number of requests the concurrent clients send in one behaviour.
MaxRequests == 3
\* Number of requests the single client of the sequential specification sends.
MaxSeqRequests == 5
\* Highest volume step of a player (volume is clamped to 0..MaxVolume).
MaxVolume == 1

\* ------------------------------------------------------- program constants
\* for _ in range(50): the number of times start() looks for the socket file.
PollAttempts == 50
\* self.proc = None
NoProc == 0

Procs == 1..MaxProcs
\* HTTP request threads: t1 alone in the sequential specification.  Flask
\* starts a thread per request, so which thread serves a request is of no
\* consequence: a request goes to the first thread that is free.
Threads == {"t1", "t2"}
Before(t) == IF t = "t1" THEN {} ELSE {"t1"}

\* Paths are sequences of components; MEDIA_DIR = Path("/media").
MEDIA_DIR == <<"media">>
\* The file names a play request may carry ("" is a request naming no file).
RequestFiles == {"", "movie.mkv", "b.mkv", "ghost.mkv"}
\* The deltas a seek or volume request may carry.
Deltas == {-1, 1}
\* How a launched player behaves: "good" creates its socket and answers,
\* "nosocket" never creates the socket, "hung" creates the socket and accepts
\* connections but never answers and never exits on its own.
Kinds == {"good", "nosocket", "hung"}

VARIABLES
    proc,        \* self.proc: NoProc or the process last launched
    pl,          \* pl[p]: the mpv process p
    sockExists,  \* os.path.exists(self.socket_path)
    sockOwner,   \* the process that bound the socket file (NoProc: no file, or
                 \* a file left from before the controller was constructed)
    mediaFiles,  \* the files present under MEDIA_DIR
    callers,     \* the request threads that exist
    th,          \* th[t]: the request thread t
    budget,      \* the number of requests still to arrive
    faulty,      \* whether players may misbehave: never create the socket, hang,
                 \* answer with an error or garbage, crash leaving the socket file
    launchTimedOut  \* history: some start() has failed with the launch timeout

vars == <<proc, pl, sockExists, sockOwner, mediaFiles, callers, th, budget, faulty, launchTimedOut>>

\* ------------------------------------------------------------ value shapes
NoReply == [kind |-> "none", hasData |-> FALSE, path |-> <<>>, flag |-> FALSE, num |-> 0]

NoSnap == [keys |-> {}, running |-> FALSE, file |-> "", paused |-> FALSE, volume |-> 0]

\* return {"running": False}
NotRunning == [NoSnap EXCEPT !.keys = {"running"}]

\* return {"running": True, "file": ..., "paused": ..., "volume": ...}
Snapshot(f, p, v) ==
    [keys |-> {"running", "file", "paused", "volume"},
     running |-> TRUE, file |-> f, paused |-> p, volume |-> v]

NoResult == [status |-> "none", exc |-> "", snap |-> NoSnap]
Ok == [status |-> "ok", exc |-> "", snap |-> NoSnap]
Raised(e) == [status |-> "raised", exc |-> e, snap |-> NoSnap]
NotFound == [status |-> "notfound", exc |-> "", snap |-> NoSnap]
Returned(s) == [status |-> "ok", exc |-> "", snap |-> s]

\* The exceptions that are instances of RuntimeError: the two the controller
\* raises itself.  ConnectionRefusedError and FileNotFoundError (OSError),
\* JSONDecodeError (ValueError) and AttributeError are not.
RuntimeErrors == {"SocketAbsent", "LaunchTimeout"}

\* os.path.basename
Basename(path) == IF Len(path) = 0 THEN "" ELSE path[Len(path)]

\* MEDIA_DIR / file
MediaPath(file) == MEDIA_DIR \o <<file>>

\* path = MEDIA_DIR / file if file else None
RequestPath(file) == IF file = "" THEN <<>> ELSE MediaPath(file)

\* mpv clamps the volume
Clamp(v) == IF v < 0 THEN 0 ELSE IF v > MaxVolume THEN MaxVolume ELSE v

\* pauseCalls is history: whether an odd number of pause() calls have
\* delivered their first command to the player.
Unborn == [state |-> "unborn", kind |-> "good", media |-> <<>>, listen |-> FALSE,
           paused |-> FALSE, vol |-> 0, pauseCalls |-> FALSE]

IdleThread == [pc |-> "idle", op |-> "", media |-> <<>>, delta |-> 0, request |-> "",
               polls |-> 0, conn |-> NoProc, pending |-> FALSE, reply |-> NoReply,
               result |-> NoResult, file |-> <<>>, paused |-> FALSE,
               hadSock |-> FALSE, delivered |-> FALSE]

Alive(p) == p # NoProc /\ pl[p].state = "alive"

\* self.proc and self.proc.poll() is None
Running == Alive(proc)

\* The tracked player is alive and listens behind the socket file.
ActiveSession == Running /\ sockExists /\ sockOwner = proc

\* ------------------------------------------------------------------- Init
InitWith(ts, n, f, files) ==
    /\ proc = NoProc
    /\ pl = [p \in Procs |-> Unborn]
    /\ sockExists \in {FALSE, f}
    /\ sockOwner = NoProc
    /\ mediaFiles = files
    /\ callers = ts
    /\ budget = n
    /\ faulty = f
    /\ th = [t \in Threads |-> IdleThread]
    /\ launchTimedOut = FALSE

\* app.run(threaded=True): requests are served concurrently.  The players are
\* well-behaved here (they may still be slow to create the socket, and end by
\* themselves) and one file is present under MEDIA_DIR.
Init == InitWith(Threads, MaxRequests, FALSE, {"movie.mkv"})

\* One client issuing its requests one after the other, with players that may
\* misbehave and possibly a stale socket file left from before.
InitSeq == InitWith({"t1"}, MaxSeqRequests, TRUE, {"movie.mkv", "b.mkv"})

\* ------------------------------------------------------- thread bookkeeping
\* The operation of thread r ends with result res: the locals go away.
Finish(r, res) ==
    [r EXCEPT !.pc = "idle", !.delta = 0, !.request = "", !.polls = 0,
              !.conn = NoProc, !.pending = FALSE, !.reply = NoReply,
              !.result = res, !.file = <<>>, !.paused = FALSE, !.delivered = FALSE]

\* Exception e leaves __send_recv (the with-statement closes the socket).
\* show_text catches RuntimeError and nothing else; no other caller catches.
Throw(r, e) ==
    IF r.request = "show-text" /\ e \in RuntimeErrors
    THEN Finish(r, Ok)
    ELSE Finish(r, Raised(e))

\* The next exchange begun with the socket of the previous one still open.
ExchangeKeepsConnection(r, req) ==
    [r EXCEPT !.pc = "sr_check", !.request = req, !.pending = FALSE, !.reply = NoReply]

\* Thread r goes on to its next exchange with the player.
Exchange(r, req) ==
    [r EXCEPT !.pc = "sr_check", !.request = req, !.conn = NoProc,
              !.pending = FALSE, !.reply = NoReply]

\* resp.get("data"), coerced as each caller coerces it.
DataPath(rep) == IF rep.hasData THEN rep.path ELSE <<>>   \* get("path") or ""
DataFlag(rep) == rep.hasData /\ rep.flag                  \* bool(get("pause"))
DataNum(rep) == IF rep.hasData THEN rep.num ELSE 0        \* int(get("volume") or 0)

\* __send_recv returned rep to thread r: what the caller does next.
Continue(r, rep) ==
    CASE r.request = "quit" -> [r EXCEPT !.pc = "stop_wait", !.conn = NoProc,
                                         !.pending = FALSE, !.reply = NoReply]
      [] r.request = "cycle" -> Exchange(r, "get_pause")
      [] r.request = "seek" -> Exchange(r, "show-text")
      [] r.request = "add" -> Exchange(r, "get_volume")
      [] r.request = "show-text" -> Finish(r, Ok)
      [] r.request = "get_path" ->
            Exchange([r EXCEPT !.file = DataPath(rep)], "get_pause")
      [] r.request = "get_pause" ->
            IF r.op = "status"
            THEN Exchange([r EXCEPT !.paused = DataFlag(rep)], "get_volume")
            ELSE Exchange(r, "show-text")
      [] r.request = "get_volume" ->
            IF r.op = "status"
            THEN Finish(r, Returned(Snapshot(Basename(r.file), r.paused, DataNum(rep))))
            ELSE Exchange(r, "show-text")

Step(t, r) == th' = [th EXCEPT ![t] = r]

\* Thread t is the one a new request is handed to.
Free(t) ==
    /\ t \in callers
    /\ th[t].pc = "idle"
    /\ \A u \in Before(t) : th[u].pc # "idle"

UnbornProcs == {p \in Procs : pl[p].state = "unborn"}
\* start() calls that have not reached Popen yet.
Launching == {t \in callers : th[t].op = "start" /\ th[t].pc \notin {"idle", "start_loop"}}

\* ------------------------------------------------------------ HTTP handlers
\* play() without the check that the file exists under MEDIA_DIR.
playSkipsCheck(t, file) ==
    /\ Free(t)
    /\ budget > 0
    /\ budget' = budget - 1
    /\ Cardinality(UnbornProcs) > Cardinality(Launching)
    /\ Step(t, [IdleThread EXCEPT !.op = "start", !.media = RequestPath(file),
                                  !.pc = "stop_check", !.hadSock = sockExists])
    /\ UNCHANGED <<proc, pl, sockExists, sockOwner, mediaFiles, callers, faulty, launchTimedOut>>

\* POST /api/play
play(t, file) ==
    /\ Free(t)
    /\ budget > 0
    /\ budget' = budget - 1
    /\ IF file = "" \/ file \notin mediaFiles
       THEN Step(t, Finish([IdleThread EXCEPT !.op = "play", !.media = RequestPath(file)],
                           NotFound))
       ELSE /\ Cardinality(UnbornProcs) > Cardinality(Launching)
            /\ Step(t, [IdleThread EXCEPT !.op = "start", !.media = RequestPath(file),
                                          !.pc = "stop_check", !.hadSock = sockExists])
    /\ UNCHANGED <<proc, pl, sockExists, sockOwner, mediaFiles, callers, faulty, launchTimedOut>>

\* POST /api/stop
stop(t) ==
    /\ Free(t)
    /\ budget > 0
    /\ budget' = budget - 1
    /\ Step(t, [IdleThread EXCEPT !.op = "stop", !.pc = "stop_check"])
    /\ UNCHANGED <<proc, pl, sockExists, sockOwner, mediaFiles, callers, faulty, launchTimedOut>>

\* pause() that only queries the pause state, without the cycle command.
pauseQueriesOnly(t) ==
    /\ Free(t)
    /\ budget > 0
    /\ budget' = budget - 1
    /\ Step(t, Exchange([IdleThread EXCEPT !.op = "pause"], "get_pause"))
    /\ UNCHANGED <<proc, pl, sockExists, sockOwner, mediaFiles, callers, faulty, launchTimedOut>>

\* POST /api/pause
pause(t) ==
    /\ Free(t)
    /\ budget > 0
    /\ budget' = budget - 1
    /\ Step(t, Exchange([IdleThread EXCEPT !.op = "pause"], "cycle"))
    /\ UNCHANGED <<proc, pl, sockExists, sockOwner, mediaFiles, callers, faulty, launchTimedOut>>

\* POST /api/seek
seek(t, d) ==
    /\ Free(t)
    /\ budget > 0
    /\ budget' = budget - 1
    /\ Step(t, Exchange([IdleThread EXCEPT !.op = "seek"], "seek"))
    /\ UNCHANGED <<proc, pl, sockExists, sockOwner, mediaFiles, callers, faulty, launchTimedOut>>

\* POST /api/volume
volume(t, d) ==
    /\ Free(t)
    /\ budget > 0
    /\ budget' = budget - 1
    /\ Step(t, Exchange([IdleThread EXCEPT !.op = "volume", !.delta = d], "add"))
    /\ UNCHANGED <<proc, pl, sockExists, sockOwner, mediaFiles, callers, faulty, launchTimedOut>>

\* GET /api/status
status(t) ==
    /\ Free(t)
    /\ budget > 0
    /\ budget' = budget - 1
    /\ Step(t, [IdleThread EXCEPT !.op = "status", !.pc = "status_check"])
    /\ UNCHANGED <<proc, pl, sockExists, sockOwner, mediaFiles, callers, faulty, launchTimedOut>>

\* ---------------------------------------------------- MPVController.status
\* status() without its early return: the player is always queried.
StatusCheckAlwaysQueries(t) ==
    /\ th[t].pc = "status_check"
    /\ Step(t, Exchange(th[t], "get_path"))
    /\ UNCHANGED <<proc, pl, sockExists, sockOwner, mediaFiles, callers, budget, faulty, launchTimedOut>>

\* status() dropping the handle of a process it finds exited.
StatusCheckClearsHandle(t) ==
    /\ th[t].pc = "status_check"
    /\ IF proc = NoProc \/ pl[proc].state = "alive"
       THEN Step(t, Finish(th[t], Returned(NotRunning))) /\ proc' = proc
       ELSE Step(t, Finish(th[t], Returned(NotRunning))) /\ proc' = NoProc
    /\ UNCHANGED <<pl, sockExists, sockOwner, mediaFiles, callers, budget, faulty, launchTimedOut>>

\* if self.proc is None or self.proc.poll() is None: return {"running": False}
StatusCheck(t) ==
    /\ th[t].pc = "status_check"
    /\ IF proc = NoProc \/ pl[proc].state = "alive"
       THEN Step(t, Finish(th[t], Returned(NotRunning)))
       ELSE Step(t, Exchange(th[t], "get_path"))
    /\ UNCHANGED <<proc, pl, sockExists, sockOwner, mediaFiles, callers, budget, faulty, launchTimedOut>>

\* ------------------------------------------------------ MPVController.stop
\* stop() forgetting the live process: the handle is dropped, the player is
\* neither asked to quit nor waited for.
StopCheckSkipsQuit(t) ==
    /\ th[t].pc = "stop_check"
    /\ Step(t, [th[t] EXCEPT !.pc = "stop_clear"])
    /\ UNCHANGED <<proc, pl, sockExists, sockOwner, mediaFiles, callers, budget, faulty, launchTimedOut>>

\* stop() sending quit whether or not a live process is tracked.
StopCheckAlwaysQuits(t) ==
    /\ th[t].pc = "stop_check"
    /\ Step(t, Exchange(th[t], "quit"))
    /\ UNCHANGED <<proc, pl, sockExists, sockOwner, mediaFiles, callers, budget, faulty, launchTimedOut>>

\* if self.proc and self.proc.poll() is None: self.command(["quit"])
StopCheck(t) ==
    /\ th[t].pc = "stop_check"
    /\ IF Running
       THEN Step(t, Exchange(th[t], "quit"))
       ELSE Step(t, [th[t] EXCEPT !.pc = "stop_clear"])
    /\ UNCHANGED <<proc, pl, sockExists, sockOwner, mediaFiles, callers, budget, faulty, launchTimedOut>>

\* self.proc.wait(timeout=3): returns once the process has exited, raises
\* TimeoutExpired while it is alive (None has no attribute wait).
StopWait(t) ==
    /\ th[t].pc = "stop_wait"
    /\ IF proc = NoProc
       THEN Step(t, Throw(th[t], "AttributeError"))
       ELSE IF Alive(proc)
            THEN Step(t, [th[t] EXCEPT !.pc = "stop_kill"])
            ELSE Step(t, [th[t] EXCEPT !.pc = "stop_clear"])
    /\ UNCHANGED <<proc, pl, sockExists, sockOwner, mediaFiles, callers, budget, faulty, launchTimedOut>>

\* A process that is gone ("exited": it ended by itself or on quit, "killed":
\* by Popen.kill): its player state is gone with it.
Dead(r, how) == [r EXCEPT !.state = how, !.kind = "good", !.listen = FALSE,
                          !.paused = FALSE, !.vol = 0, !.pauseCalls = FALSE]

\* except subprocess.TimeoutExpired: self.proc.kill()
StopKill(t) ==
    /\ th[t].pc = "stop_kill"
    /\ IF proc = NoProc
       THEN /\ Step(t, Throw(th[t], "AttributeError"))
            /\ pl' = pl
       ELSE /\ Step(t, [th[t] EXCEPT !.pc = "stop_clear"])
            /\ pl' = [pl EXCEPT ![proc] = IF Alive(proc) THEN Dead(@, "killed") ELSE @]
    /\ UNCHANGED <<proc, sockExists, sockOwner, mediaFiles, callers, budget, faulty, launchTimedOut>>

\* self.proc = None
StopClear(t) ==
    /\ th[t].pc = "stop_clear"
    /\ proc' = NoProc
    /\ Step(t, [th[t] EXCEPT !.pc = "stop_clean"])
    /\ UNCHANGED <<pl, sockExists, sockOwner, mediaFiles, callers, budget, faulty, launchTimedOut>>

\* stop() returning without removing the socket file.
StopCleanKeepsSocket(t) ==
    /\ th[t].pc = "stop_clean"
    /\ IF th[t].op = "start"
       THEN Step(t, [th[t] EXCEPT !.pc = "start_clean"])
       ELSE Step(t, Finish(th[t], Ok))
    /\ UNCHANGED <<proc, pl, sockExists, sockOwner, mediaFiles, callers, budget, faulty, launchTimedOut>>

\* self.__clean_socket(), the last statement of stop(); start() goes on.
StopClean(t) ==
    /\ th[t].pc = "stop_clean"
    /\ sockExists' = FALSE
    /\ sockOwner' = NoProc
    /\ IF th[t].op = "start"
       THEN Step(t, [th[t] EXCEPT !.pc = "start_clean"])
       ELSE Step(t, Finish(th[t], Ok))
    /\ UNCHANGED <<proc, pl, mediaFiles, callers, budget, faulty, launchTimedOut>>

\* ----------------------------------------------------- MPVController.start
\* self.__clean_socket(), after self.stop()
StartClean(t) ==
    /\ th[t].pc = "start_clean"
    /\ sockExists' = FALSE
    /\ sockOwner' = NoProc
    /\ Step(t, [th[t] EXCEPT !.pc = "start_popen"])
    /\ UNCHANGED <<proc, pl, mediaFiles, callers, budget, faulty, launchTimedOut>>

\* self.proc = subprocess.Popen(cmd)
StartPopen(t, k) ==
    /\ th[t].pc = "start_popen"
    /\ k # "good" => faulty
    /\ UnbornProcs # {}
    /\ LET p == CHOOSE q \in UnbornProcs : \A o \in UnbornProcs : q <= o
       IN /\ pl' = [pl EXCEPT ![p] = [state |-> "alive", kind |-> k,
                                       media |-> th[t].media, listen |-> FALSE,
                                       paused |-> FALSE, vol |-> MaxVolume,
                                       pauseCalls |-> FALSE]]
          /\ proc' = p
    /\ Step(t, [th[t] EXCEPT !.pc = "start_loop", !.polls = 0])
    /\ UNCHANGED <<sockExists, sockOwner, mediaFiles, callers, budget, faulty, launchTimedOut>>

\* The polling loop with its test inverted: it breaks when the file is absent.
StartPollInverted(t) ==
    /\ th[t].pc = "start_loop"
    /\ IF ~sockExists
       THEN /\ Step(t, Finish(th[t], Ok))
            /\ UNCHANGED launchTimedOut
       ELSE IF th[t].polls + 1 < PollAttempts
            THEN /\ Step(t, [th[t] EXCEPT !.polls = @ + 1])
                 /\ UNCHANGED launchTimedOut
            ELSE /\ Step(t, Throw(th[t], "LaunchTimeout"))
                 /\ launchTimedOut' = TRUE
    /\ UNCHANGED <<proc, pl, sockExists, sockOwner, mediaFiles, callers, budget, faulty>>

\* for _ in range(50): if os.path.exists(...): break; time.sleep(0.1)
\* else: raise RuntimeError("IPC socket not found after starting mpv")
StartPoll(t) ==
    /\ th[t].pc = "start_loop"
    /\ IF sockExists
       THEN /\ Step(t, Finish(th[t], Ok))
            /\ UNCHANGED launchTimedOut
       ELSE IF th[t].polls + 1 < PollAttempts
            THEN /\ Step(t, [th[t] EXCEPT !.polls = @ + 1])
                 /\ UNCHANGED launchTimedOut
            ELSE /\ Step(t, Throw(th[t], "LaunchTimeout"))
                 /\ launchTimedOut' = TRUE
    /\ UNCHANGED <<proc, pl, sockExists, sockOwner, mediaFiles, callers, budget, faulty>>

\* ----------------------------------------------- MPVController.__send_recv
\* __send_recv without the test that the socket file exists.
SendRecvCheckSkipsExists(t) ==
    /\ th[t].pc = "sr_check"
    /\ Step(t, [th[t] EXCEPT !.pc = "sr_connect"])
    /\ UNCHANGED <<proc, pl, sockExists, sockOwner, mediaFiles, callers, budget, faulty, launchTimedOut>>

\* if not os.path.exists(self.socket_path): raise RuntimeError("IPC socket absent")
SendRecvCheck(t) ==
    /\ th[t].pc = "sr_check"
    /\ IF sockExists
       THEN Step(t, [th[t] EXCEPT !.pc = "sr_connect"])
       ELSE Step(t, Throw(th[t], "SocketAbsent"))
    /\ UNCHANGED <<proc, pl, sockExists, sockOwner, mediaFiles, callers, budget, faulty, launchTimedOut>>

\* s.connect(self.socket_path); s.sendall(...).  delivered and pauseCalls are
\* history: the call has sent a command, and it was a pause() call's first.
SendRecvConnect(t) ==
    /\ th[t].pc = "sr_connect"
    /\ IF ~sockExists
       THEN Step(t, Throw(th[t], "FileNotFoundError")) /\ pl' = pl
       ELSE IF Alive(sockOwner)
            THEN /\ Step(t, [th[t] EXCEPT !.pc = "sr_recv", !.conn = sockOwner,
                                          !.pending = TRUE, !.delivered = TRUE])
                 /\ pl' = IF th[t].op = "pause" /\ ~th[t].delivered
                          THEN [pl EXCEPT ![sockOwner].pauseCalls = ~@]
                          ELSE pl
            ELSE Step(t, Throw(th[t], "ConnectionRefusedError")) /\ pl' = pl
    /\ UNCHANGED <<proc, sockExists, sockOwner, mediaFiles, callers, budget, faulty, launchTimedOut>>

\* s.recv(...) until a newline or the peer closes; json.loads(data.decode()).
\* Blocks (no timeout is set on the socket) while the peer is alive and silent.
SendRecvRecv(t) ==
    /\ th[t].pc = "sr_recv"
    /\ \/ /\ th[t].reply.kind = "ok"
          /\ Step(t, Continue(th[t], th[t].reply))
       \/ /\ \/ th[t].reply.kind = "bad"
             \/ th[t].reply.kind = "none" /\ ~Alive(th[t].conn)
          /\ Step(t, Throw(th[t], "JSONDecodeError"))
    /\ UNCHANGED <<proc, pl, sockExists, sockOwner, mediaFiles, callers, budget, faulty, launchTimedOut>>

\* ------------------------------------------------------- the mpv processes
\* The socket file once process p is gone: a clean exit unlinks it, a crash
\* or a kill leaves it behind with nobody listening.
SocketAfter(p, unlink) ==
    IF sockOwner = p /\ unlink
    THEN /\ sockOwner' = NoProc
         /\ sockExists' = FALSE
    ELSE UNCHANGED <<sockExists, sockOwner>>

\* --input-ipc-server: mpv binds its socket at the path, some time after launch.
PlayerCreateSocket(p) ==
    /\ Alive(p)
    /\ pl[p].kind # "nosocket"
    /\ ~pl[p].listen
    /\ pl' = [pl EXCEPT ![p].listen = TRUE]
    /\ sockExists' = TRUE
    /\ sockOwner' = p
    /\ UNCHANGED <<proc, mediaFiles, callers, th, budget, faulty, launchTimedOut>>

\* mpv ends on its own (the file is over and no --idle is passed, or a crash).
PlayerExit(p, unlink) ==
    /\ Alive(p)
    /\ pl[p].kind # "hung"
    /\ ~unlink => faulty
    /\ pl' = [pl EXCEPT ![p] = Dead(@, "exited")]
    /\ SocketAfter(p, unlink)
    /\ UNCHANGED <<proc, mediaFiles, callers, th, budget, faulty, launchTimedOut>>

GetRequests == {"get_path", "get_pause", "get_volume"}

\* The reply of player p to request req: out = "ok" is {"data": ..., "error":
\* "success"}, "nodata" an error reply without data, "bad" a line that is not JSON.
ReplyOf(p, req, out) ==
    [kind |-> IF out = "bad" THEN "bad" ELSE "ok",
     hasData |-> (out = "ok" /\ req \in GetRequests),
     path |-> IF out = "ok" /\ req = "get_path" THEN pl[p].media ELSE <<>>,
     flag |-> (out = "ok" /\ req = "get_pause" /\ pl[p].paused),
     num |-> IF out = "ok" /\ req = "get_volume" THEN pl[p].vol ELSE 0]

\* Player p after executing request req with argument d.
Executed(p, req, d, exits) ==
    CASE req = "quit" /\ exits -> Dead(pl[p], "exited")
      [] req = "cycle" -> [pl[p] EXCEPT !.paused = ~@]
      [] req = "add" -> [pl[p] EXCEPT !.vol = Clamp(@ + d)]
      [] OTHER -> pl[p]

\* A responsive player reads the request of thread t, executes it and answers.
PlayerHandle(t, out, exits) ==
    /\ th[t].pc = "sr_recv"
    /\ th[t].pending
    /\ Alive(th[t].conn)
    /\ pl[th[t].conn].kind # "hung"
    /\ out # "ok" => faulty
    /\ out = "nodata" => th[t].request \in GetRequests
    /\ exits => th[t].request = "quit"
    /\ LET p == th[t].conn
           req == th[t].request
       IN /\ pl' = [pl EXCEPT ![p] = Executed(p, req, th[t].delta, exits)]
          /\ Step(t, [th[t] EXCEPT !.pending = FALSE, !.reply = ReplyOf(p, req, out)])
          /\ IF req = "quit" /\ exits
             THEN SocketAfter(p, TRUE)
             ELSE UNCHANGED <<sockExists, sockOwner>>
    /\ UNCHANGED <<proc, mediaFiles, callers, budget, faulty, launchTimedOut>>

\* ------------------------------------------------------------------- Next
\* The steps of a request that is being served.
ThreadStep(t) ==
    \/ StatusCheck(t)
    \/ StopCheck(t)
    \/ StopWait(t)
    \/ StopKill(t)
    \/ StopClear(t)
    \/ StopClean(t)
    \/ StartClean(t)
    \/ \E k \in Kinds : StartPopen(t, k)
    \/ StartPoll(t)
    \/ SendRecvCheck(t)
    \/ SendRecvConnect(t)
    \/ SendRecvRecv(t)

\* A request arrives.
Request(t) ==
    \/ \E f \in RequestFiles : play(t, f)
    \/ stop(t)
    \/ pause(t)
    \/ \E d \in Deltas : seek(t, d)
    \/ \E d \in Deltas : volume(t, d)
    \/ status(t)

Player ==
    \/ \E p \in Procs : PlayerCreateSocket(p)
    \/ \E p \in Procs, unlink \in BOOLEAN : PlayerExit(p, unlink)
    \/ \E t \in Threads, out \in {"ok", "nodata", "bad"}, exits \in BOOLEAN :
          PlayerHandle(t, out, exits)

Next ==
    \/ \E t \in Threads : Request(t)
    \/ \E t \in Threads : ThreadStep(t)
    \/ Player

Spec == Init /\ [][Next]_vars

SeqSpec == InitSeq /\ [][Next]_vars

\* Every thread that is serving a request is scheduled again (the sleeps and
\* the wait of 3 s end), and a responsive player answers what it was sent.
Fairness ==
    \A t \in Threads :
        /\ WF_vars(ThreadStep(t))
        /\ WF_vars(\E out \in {"ok", "nodata", "bad"}, exits \in BOOLEAN :
                      PlayerHandle(t, out, exits))

FairSpec == InitSeq /\ [][Next]_vars /\ Fairness

\* ------------------------------------------------------------------ claims
AliveProcs == {p \in Procs : pl[p].state = "alive"}
Busy == {t \in callers : th[t].pc # "idle"}
\* Thread t has returned from operation o.
Ended(t, o) == th[t].op = o /\ th[t].pc = "idle"
\* Thread t is inside stop(), called by the stop request itself.
InStop(t) == th[t].op = "stop" /\ th[t].pc # "idle"

\* C1: in every reachable state, under any interleaving of the requests of
\* concurrent threads, at most one player process launched by the controller
\* is alive.
C1_AtMostOneAlive == Cardinality(AliveProcs) <= 1

\* C2: the operations of one controller are mutually exclusive: while one of
\* them is between entry and return, no other one is.
C2_MutualExclusion == Cardinality(Busy) <= 1

\* C3: with one client calling start(A) and then start(B), the processes of A
\* and B are never alive together, and once start(B) has returned the tracked
\* process is the one playing B, it has not been killed, and no other process
\* is alive.
C3_ReplaceSemantics ==
    /\ Cardinality(AliveProcs) <= 1
    /\ \A t \in callers :
          (Ended(t, "start") /\ th[t].result = Ok) =>
             /\ proc # NoProc
             /\ pl[proc].media = th[t].media
             /\ pl[proc].state \in {"alive", "exited"}
             /\ AliveProcs \subseteq {proc}

\* start(B) has returned after start(A): B is alive and tracked, A is gone.
C3_Witness ==
    /\ Ended("t1", "start") /\ th["t1"].result = Ok
    /\ th["t1"].media = MediaPath("b.mkv")
    /\ proc = 2 /\ pl[2].state = "alive" /\ pl[2].listen
    /\ pl[1].state \in {"exited", "killed"} /\ pl[1].media = MediaPath("movie.mkv")

\* C4: a start() that fails with the launch timeout leaves the controller
\* idle: no process handle tracked, no launched process alive.
C4_TimeoutLeavesIdle ==
    \A t \in callers :
        (Ended(t, "start") /\ th[t].result = Raised("LaunchTimeout")) =>
            proc = NoProc /\ AliveProcs = {}

\* The quit of a stop() request is about to find the channel unavailable.
QuitUnavailable(t) ==
    /\ InStop(t)
    /\ th[t].request = "quit"
    /\ \/ th[t].pc = "sr_check" /\ ~sockExists
       \/ th[t].pc = "sr_connect" /\ (~sockExists \/ ~Alive(sockOwner))

\* C5: stop() with a tracked, live process and an unavailable channel ignores
\* the failure of quit and goes on to wait for the process (and so to clear
\* the session) instead of raising.
C5_StopIgnoresChannelUnavailable ==
    [][\A t \in Threads :
          (QuitUnavailable(t) /\ Running /\ th'[t] # th[t]) =>
              th'[t].pc = "stop_wait"]_vars

\* C6: every stop() call eventually returns, whatever the player does.
C6_StopReturns ==
    \A t \in Threads : InStop(t) ~> (th[t].pc = "idle")

\* C7: status() returns exactly {running: false} when no process is tracked
\* or the tracked process has exited, and otherwise goes on to query the
\* player (path first) for a snapshot with running: true.
C7_StatusRunningIffAlive ==
    [][\A t \in Threads :
          (th[t].pc = "status_check" /\ th'[t] # th[t]) =>
              IF Running
              THEN th'[t].pc = "sr_check" /\ th'[t].request = "get_path"
              ELSE th'[t].pc = "idle" /\ th'[t].result = Returned(NotRunning)]_vars

\* C8: status() never raises.
C8_StatusNeverRaises ==
    \A t \in callers : Ended(t, "status") => th[t].result.status # "raised"

\* The snapshots of the players alive now.
LiveSnapshots ==
    {Snapshot(Basename(pl[p].media), pl[p].paused, pl[p].vol) : p \in AliveProcs}

\* C9: a status() that returns while a stop() is in progress on another thread
\* does not raise, and returns {running: false} or the complete snapshot of a
\* live player.
C9_StatusDuringStop ==
    [][\A t \in Threads :
          (/\ th[t].op = "status" /\ th[t].pc # "idle" /\ th'[t].pc = "idle"
           /\ \E u \in Threads \ {t} : InStop(u)) =>
              /\ th'[t].result.status = "ok"
              /\ th'[t].result.snap \in {NotRunning} \cup LiveSnapshots]_vars

\* C10: after a start() has failed with the launch timeout, a stop() returns
\* normally and leaves the controller idle.
C10_StopAfterFailure ==
    \A t \in callers :
        (launchTimedOut /\ Ended(t, "stop")) =>
            th[t].result = Ok /\ proc = NoProc

\* Thread t's record changes in this step.
Changed(t) == th'[t] # th[t]
\* The session state a controller call can touch besides the handle.
Session == <<proc, pl, sockExists, sockOwner>>

\* C11: a stop() called while no session is active (no process tracked, or the
\* tracked process already exited) sends nothing over the channel, goes through
\* clearing the handle and cleaning the socket, and returns normally with the
\* controller idle.
C11_IdleStopIsNoOp ==
    [][\A t \in Threads :
          (InStop(t) /\ Changed(t)) =>
              /\ (th[t].pc = "stop_check" /\ ~Running) =>
                     /\ th'[t].pc = "stop_clear"
                     /\ th'[t].request = "" /\ ~th'[t].delivered
              /\ (th[t].pc = "stop_clear" /\ th[t].request = "") =>
                     th'[t].pc = "stop_clean" /\ proc' = NoProc
              /\ (th[t].pc = "stop_clean" /\ th[t].request = "") =>
                     /\ th'[t].pc = "idle" /\ th'[t].result = Ok
                     /\ ~th'[t].delivered
                     /\ proc' = NoProc /\ ~sockExists']_vars

\* stop() has found the tracked process already exited and skipped the quit.
C11_Witness ==
    /\ InStop("t1") /\ th["t1"].pc = "stop_clear" /\ th["t1"].request = ""
    /\ proc # NoProc /\ pl[proc].state = "exited"

\* The steps of start() before the new player is launched.
PreLaunch == {"stop_check", "sr_check", "sr_connect", "sr_recv", "stop_wait",
              "stop_kill", "stop_clear", "stop_clean", "start_clean", "start_popen"}

\* C12: when a stop() returns normally the socket path does not exist, no
\* process is tracked and no player is alive; a start() entered in that state
\* does not fail before launching, and returns normally once its polling sees
\* the socket of the new player.
C12_StopThenStart ==
    [][\A t \in Threads :
          /\ (Ended(t, "stop")' /\ th'[t].result = Ok) =>
                 ~sockExists' /\ proc' = NoProc /\ AliveProcs' = {}
          /\ (/\ th[t].op = "start" /\ th[t].pc \in PreLaunch
              /\ proc = NoProc /\ Changed(t)) => th'[t].pc # "idle"
          /\ (th[t].pc = "start_loop" /\ sockExists /\ Changed(t)) =>
                 th'[t].pc = "idle" /\ th'[t].result = Ok]_vars

\* A stop() that had to kill the player has returned normally.
C12_Witness ==
    /\ Ended("t1", "stop") /\ th["t1"].result = Ok
    /\ pl[1].state = "killed" /\ ~sockExists /\ proc = NoProc

\* Thread t is about to open the connection of its notification exchange and
\* the channel is unavailable: socket file missing, or nobody listening on it.
NotifyUnavailable(t) ==
    /\ th[t].request = "show-text"
    /\ \/ th[t].pc = "sr_check" /\ ~sockExists
       \/ th[t].pc = "sr_connect" /\ (~sockExists \/ ~Alive(sockOwner))

\* C13: in pause(), seek() and volume(), once the primary command has been
\* delivered, unavailability of the channel during the notification step is
\* swallowed and the operation returns without raising.
C13_NotificationFailureSwallowed ==
    [][\A t \in Threads :
          (th[t].delivered /\ NotifyUnavailable(t) /\ Changed(t)) =>
              th'[t].pc = "idle" /\ th'[t].result = Ok]_vars

\* C14: with no call in progress, the pause state of a live player is the
\* parity of the pause() calls that reached it: every such call toggled it
\* exactly once, and nothing else changed it.
C14_PauseParity ==
    \A p \in Procs :
        (Busy = {} /\ Alive(p)) => pl[p].paused = pl[p].pauseCalls

\* Two pause() calls after a start() have brought the player back to playing.
C14_Witness ==
    /\ Ended("t1", "pause") /\ th["t1"].result = Ok
    /\ ActiveSession /\ ~pl[proc].paused
    /\ budget = MaxSeqRequests - 3

\* start() was never called on the controller.
NeverStarted ==
    /\ UnbornProcs = Procs
    /\ \A t \in callers : th[t].op # "start"

\* C15: status() on a controller on which start() was never called opens no
\* connection and returns {running: false} with no other fields.
C15_StatusBeforeAnyStart ==
    \A t \in callers :
        (th[t].op = "status" /\ NeverStarted) =>
            /\ th[t].pc \in {"status_check", "idle"}
            /\ th[t].conn = NoProc /\ ~th[t].delivered
            /\ th[t].pc = "idle" => th[t].result = Returned(NotRunning)

\* status() has returned on a never-started controller, a socket file left by
\* an earlier run being present.
C15_Witness ==
    /\ Ended("t1", "status") /\ NeverStarted /\ sockExists
    /\ th["t1"].result = Returned(NotRunning)

\* No file was named, or the named file is not under the media root.
Absent(path) == path = <<>> \/ Basename(path) \notin mediaFiles

PrimaryRequests == {"cycle", "seek", "add"}

\* C17: pause(), seek() and volume() reaching the existence test of their
\* primary command with no socket file raise the channel-unavailable error
\* with no connection opened and nothing sent, and leave the session unchanged.
C17_NoSocketFailsEarly ==
    [][\A t \in Threads :
          (/\ th[t].op \in {"pause", "seek", "volume"}
           /\ th[t].request \in PrimaryRequests
           /\ th[t].pc = "sr_check" /\ ~sockExists /\ Changed(t)) =>
              /\ th[t].conn = NoProc /\ ~th[t].delivered
              /\ th'[t].pc = "idle" /\ th'[t].result = Raised("SocketAbsent")
              /\ th'[t].conn = NoProc /\ ~th'[t].delivered
              /\ UNCHANGED Session]_vars

\* volume() has failed on a controller that never launched a player.
C17_Witness ==
    /\ Ended("t1", "volume") /\ th["t1"].result = Raised("SocketAbsent")
    /\ UnbornProcs = Procs /\ proc = NoProc

\* The order of the exchanges inside pause() and volume().
ExchangeOrder ==
    {<<"pause", "", "cycle">>, <<"pause", "cycle", "get_pause">>,
     <<"pause", "get_pause", "show-text">>,
     <<"volume", "", "add">>, <<"volume", "add", "get_volume">>,
     <<"volume", "get_volume", "show-text">>}

\* C18: inside one pause() or volume() call the exchanges go primary command,
\* property query, notification; a connection is open only while an exchange
\* awaits its reply, so none is open between exchanges or after the return,
\* and at most one connection is open at any time.
C18_OneConnectionPerExchange ==
    [][/\ \A t \in Threads :
             th'[t].op \in {"pause", "volume"} =>
                 /\ (th'[t].request # th[t].request /\ th'[t].pc # "idle") =>
                        <<th'[t].op, th[t].request, th'[t].request>> \in ExchangeOrder
                 /\ th'[t].conn # NoProc => th'[t].pc = "sr_recv"
                 /\ th'[t].pc \in {"sr_check", "sr_connect", "idle"} =>
                        th'[t].conn = NoProc
       /\ Cardinality({t \in Threads : th'[t].conn # NoProc}) <= 1]_vars

\* pause() awaits the reply of its notification on an open connection.
C18_Witness ==
    /\ th["t1"].op = "pause" /\ th["t1"].pc = "sr_recv"
    /\ th["t1"].request = "show-text" /\ th["t1"].conn # NoProc

\* C19: start() launches the player only with no socket file at the path, and
\* returns normally only when the socket file is the one bound by the player
\* it launched; otherwise its polling ends in the launch timeout.
C19_NoStaleSocketSuccess ==
    [][\A t \in Threads :
          /\ (th[t].pc = "start_popen" /\ Changed(t)) => ~sockExists
          /\ (th[t].pc = "start_loop" /\ th'[t].pc = "idle") =>
                 /\ th'[t].result \in {Ok, Raised("LaunchTimeout")}
                 /\ th'[t].result = Ok => sockExists /\ sockOwner = proc
                 /\ pl[proc].kind = "nosocket" =>
                        th'[t].result = Raised("LaunchTimeout")]_vars

\* A start() entered with a stale socket file present has timed out.
C19_Witness ==
    /\ Ended("t1", "start") /\ th["t1"].result = Raised("LaunchTimeout")
    /\ th["t1"].hadSock /\ ~sockExists

\* The operations that only talk to the player.
QueryOps == {"pause", "seek", "volume", "status"}

\* C20: no step of pause(), seek(), volume() or status() changes the tracked
\* handle or creates or removes the socket file; the handle changes only in
\* steps of start() and stop(), and a player exiting leaves it set.
C20_QueriesKeepSession ==
    [][/\ \A t \in Threads :
             (Changed(t) /\ th'[t].op \in QueryOps) =>
                 UNCHANGED <<proc, sockExists, sockOwner>>
       /\ proc' # proc =>
              \E t \in Threads : Changed(t) /\ th[t].op \in {"start", "stop"}
       /\ th' = th => proc' = proc]_vars

\* status() has returned while the handle still names a player that exited.
C20_Witness ==
    /\ Ended("t1", "status")
    /\ proc # NoProc /\ pl[proc].state = "exited"

====
